---- MODULE Spec2Model ----
(***************************************************************************)
(* Model of src/main.py of weather-data-collector: a single-run batch job  *)
(* that, for each configured city, fetches the current weather, extracts a *)
(* record, uploads it to S3 and saves it to a local file.                  *)
(*                                                                         *)
(* Python values are tagged records (t is the Python type); a Python str   *)
(* is a sequence of one-character strings so that split, strip and replace *)
(* are computed character by character.                                    *)
(***************************************************************************)
EXTENDS Integers, Sequences, FiniteSets, TLC

VARIABLES
    OPENWEATHER_API_KEY,  \* module global, line 14
    S3_BUCKET_NAME,       \* module global, line 16
    CITIES_ENV,           \* module global, line 17 (a str, "" when unset)
    pc,                   \* position of the interpreter in main() / in the call under test
    cities,               \* local of main, line 124
    idx,                  \* position of the for loop of line 131 (1-based)
    s3_client,            \* local of main, line 129
    raw_data,             \* local of main, line 134
    cleaned,              \* local of main, line 135
    clock,                \* the UTC clock read by datetime.now, in seconds
    bucket,               \* the objects of the S3 bucket
    docs,                 \* the files of the local docs directory
    log,                  \* the lines printed so far
    ops                   \* the calls made so far, in order

vars == <<OPENWEATHER_API_KEY, S3_BUCKET_NAME, CITIES_ENV, pc, cities, idx,
          s3_client, raw_data, cleaned, clock, bucket, docs, log, ops>>

\* ---------------------------------------------------------------- bounds
MaxEnvLen == 4     \* longest CITIES value explored
MaxClock == 1      \* the clock advances at most this many seconds in a run

\* ---------------------------------------------------------------- Python values
PyNone == [t |-> "None"]
PyStr(s) == [t |-> "str", s |-> s]
PyNum(n) == [t |-> "num", n |-> n]
PyList(l) == [t |-> "list", l |-> l]
PyDict(d) == [t |-> "dict", d |-> d]
EmptyDict == PyDict([k \in {} |-> PyNone])

\* the str a datetime is formatted to: isoformat() or strftime("%Y%m%dT%H%M%SZ")
PyTime(fmt, at) == [t |-> "str", fmt |-> fmt, at |-> at]

\* an exception leaving a function
Raise(exc) == [t |-> "raise", exc |-> exc]

\* `not v` for the values a configuration global can hold
Falsy(v) == v = PyNone \/ (v.t = "str" /\ v.s = <<>>)

\* dict.get(key, default)
PyGet(dct, key, default) == IF key \in DOMAIN dct.d THEN dct.d[key] ELSE default

\* v[0]: the element, or the exception the subscript raises
Subscript0(v) ==
    CASE v.t = "list" -> IF Len(v.l) > 0 THEN v.l[1] ELSE Raise("IndexError")
      [] v.t = "str"  -> IF Len(v.s) > 0 THEN PyStr(<<v.s[1]>>) ELSE Raise("IndexError")
      [] v.t = "dict" -> Raise("KeyError")   \* the keys of a JSON object are strs
      [] OTHER        -> Raise("TypeError")

\* ---------------------------------------------------------------- str operations
Whitespace == {" "}

RECURSIVE split(_)
\* s.split(",")
split(s) ==
    IF \A k \in 1..Len(s) : s[k] # ","
    THEN <<s>>
    ELSE LET i == CHOOSE k \in 1..Len(s) : s[k] = "," /\ \A j \in 1..(k-1) : s[j] # ","
         IN <<SubSeq(s, 1, i - 1)>> \o split(SubSeq(s, i + 1, Len(s)))

RECURSIVE lstrip(_)
lstrip(s) == IF s # <<>> /\ Head(s) \in Whitespace THEN lstrip(Tail(s)) ELSE s

RECURSIVE rstrip(_)
rstrip(s) == IF s # <<>> /\ s[Len(s)] \in Whitespace
             THEN rstrip(SubSeq(s, 1, Len(s) - 1)) ELSE s

\* s.strip()
strip(s) == rstrip(lstrip(s))

\* s.replace(" ", "_")
replace(s) == [k \in 1..Len(s) |-> IF s[k] = " " THEN "_" ELSE s[k]]

\* ---------------------------------------------------------------- get_cities_from_env
\* without the `if city.strip()` filter
get_cities_keep_empty(env) ==
    LET parts == split(env) IN [k \in 1..Len(parts) |-> strip(parts[k])]

get_cities_from_env(env) ==
    LET parts == split(env)
        stripped == [k \in 1..Len(parts) |-> strip(parts[k])]
        NonEmpty(c) == c # <<>>
    IN SelectSeq(stripped, NonEmpty)

\* ---------------------------------------------------------------- fetch_weather_for_city
\* what the HTTP exchange of lines 45-47 produces: a decoded body or an exception
OkResponse(json) == [kind |-> "ok", json |-> json]
ErrResponse(kind) == [kind |-> kind, json |-> PyNone]

\* on an error, hand back a stub body instead of raising
fetch_weather_stub(city, resp) ==
    IF resp.kind = "ok"
    THEN [raised |-> FALSE, exc |-> "", value |-> resp.json, out |-> <<>>]
    ELSE [raised |-> FALSE, exc |-> "", value |-> PyDict([name |-> PyStr(city)]),
          out |-> <<[lvl |-> "ERROR", tag |-> resp.kind, who |-> PyStr(city)]>>]

fetch_weather_for_city(city, resp) ==
    IF resp.kind = "ok"
    THEN [raised |-> FALSE, exc |-> "", value |-> resp.json, out |-> <<>>]
    ELSE [raised |-> TRUE, exc |-> resp.kind, value |-> PyNone,
          out |-> <<[lvl |-> "ERROR", tag |-> resp.kind, who |-> PyStr(city)]>>]

\* ---------------------------------------------------------------- extract_relevant_data
\* with [] as the default of the conditions list
extract_default_empty_list(raw, now) ==
    LET city_name == PyGet(raw, "name", PyNone)
        main == PyGet(raw, "main", EmptyDict)
        weather == Subscript0(PyGet(raw, "weather", PyList(<<>>)))
    IN IF weather.t = "raise" THEN weather
       ELSE IF main.t # "dict" THEN Raise("AttributeError")
       ELSE IF weather.t # "dict" THEN Raise("AttributeError")
       ELSE PyDict([city |-> city_name,
                    temperature_f |-> PyGet(main, "temp", PyNone),
                    humidity |-> PyGet(main, "humidity", PyNone),
                    condition |-> PyGet(weather, "description", PyNone),
                    timestamp |-> PyTime("iso", now),
                    raw |-> raw])

\* lines 61-63 run first; the dict display of lines 65-72 evaluates
\* main.get before weather.get
extract_relevant_data(raw, now) ==
    LET city_name == PyGet(raw, "name", PyNone)
        main == PyGet(raw, "main", EmptyDict)
        weather == Subscript0(PyGet(raw, "weather", PyList(<<EmptyDict>>)))
    IN IF weather.t = "raise" THEN weather
       ELSE IF main.t # "dict" THEN Raise("AttributeError")
       ELSE IF weather.t # "dict" THEN Raise("AttributeError")
       ELSE PyDict([city |-> city_name,
                    temperature_f |-> PyGet(main, "temp", PyNone),
                    humidity |-> PyGet(main, "humidity", PyNone),
                    condition |-> PyGet(weather, "description", PyNone),
                    timestamp |-> PyTime("iso", now),
                    raw |-> raw])

\* ---------------------------------------------------------------- upload_to_s3
unknown == <<"u", "n", "k", "n", "o", "w", "n">>

\* the outcomes of s3_client.put_object that lines 85-94 distinguish
PutResults == {"ok", "BotoCoreError", "ClientError"}

\* the key of line 82: weather-data/<city>/<city>_<timestamp>.json
s3_key(city, now) == [prefix |-> "weather-data", dir |-> city, name |-> city,
                      ts |-> PyTime("compact", now)]

\* logs the object-store error and returns instead of re-raising
upload_swallow(data, now, result) ==
    LET cv == PyGet(data, "city", PyStr(unknown)) IN
    IF cv.t # "str"
    THEN [raised |-> TRUE, exc |-> "AttributeError", out |-> <<>>, calls |-> <<>>,
          data |-> data]
    ELSE LET city == replace(cv.s)
             call == [Key |-> s3_key(city, now), Body |-> data, ok |-> result = "ok"]
         IN IF result = "ok"
            THEN [raised |-> FALSE, exc |-> "", calls |-> <<call>>, data |-> data,
                  out |-> <<[lvl |-> "INFO", tag |-> "uploaded", who |-> PyStr(city)]>>]
            ELSE [raised |-> FALSE, exc |-> "", calls |-> <<call>>, data |-> data,
                  out |-> <<[lvl |-> "ERROR", tag |-> "upload", who |-> PyStr(city)]>>]

\* stores the normalised city back into the record it was given
upload_normalises_record(data, now, result) ==
    LET cv == PyGet(data, "city", PyStr(unknown)) IN
    IF cv.t # "str"
    THEN [raised |-> TRUE, exc |-> "AttributeError", out |-> <<>>, calls |-> <<>>,
          data |-> data]
    ELSE LET city == replace(cv.s)
             changed == PyDict([data.d EXCEPT !["city"] = PyStr(city)])
             call == [Key |-> s3_key(city, now), Body |-> changed, ok |-> result = "ok"]
         IN IF result = "ok"
            THEN [raised |-> FALSE, exc |-> "", calls |-> <<call>>, data |-> changed,
                  out |-> <<[lvl |-> "INFO", tag |-> "uploaded", who |-> PyStr(city)]>>]
            ELSE [raised |-> TRUE, exc |-> result, calls |-> <<call>>, data |-> changed,
                  out |-> <<[lvl |-> "ERROR", tag |-> "upload", who |-> PyStr(city)]>>]

\* applies the "unknown" default to a null city as well as to an absent one
upload_default_for_none(data, now, result) ==
    LET got == PyGet(data, "city", PyStr(unknown))
        cv == IF got = PyNone THEN PyStr(unknown) ELSE got
    IN
    IF cv.t # "str"
    THEN [raised |-> TRUE, exc |-> "AttributeError", out |-> <<>>, calls |-> <<>>,
          data |-> data]
    ELSE LET city == replace(cv.s)
             call == [Key |-> s3_key(city, now), Body |-> data, ok |-> result = "ok"]
         IN IF result = "ok"
            THEN [raised |-> FALSE, exc |-> "", calls |-> <<call>>, data |-> data,
                  out |-> <<[lvl |-> "INFO", tag |-> "uploaded", who |-> PyStr(city)]>>]
            ELSE [raised |-> TRUE, exc |-> result, calls |-> <<call>>, data |-> data,
                  out |-> <<[lvl |-> "ERROR", tag |-> "upload", who |-> PyStr(city)]>>]

\* line 80 raises AttributeError when the city is not a str (None has no
\* replace); otherwise one put_object call is made, and its error is logged
\* and re-raised.  data is the caller's record, which the body never assigns to.
upload_to_s3(data, now, result) ==
    LET cv == PyGet(data, "city", PyStr(unknown)) IN
    IF cv.t # "str"
    THEN [raised |-> TRUE, exc |-> "AttributeError", out |-> <<>>, calls |-> <<>>,
          data |-> data]
    ELSE LET city == replace(cv.s)
             call == [Key |-> s3_key(city, now), Body |-> data, ok |-> result = "ok"]
         IN IF result = "ok"
            THEN [raised |-> FALSE, exc |-> "", calls |-> <<call>>, data |-> data,
                  out |-> <<[lvl |-> "INFO", tag |-> "uploaded", who |-> PyStr(city)]>>]
            ELSE [raised |-> TRUE, exc |-> result, calls |-> <<call>>, data |-> data,
                  out |-> <<[lvl |-> "ERROR", tag |-> "upload", who |-> PyStr(city)]>>]

\* ---------------------------------------------------------------- save_to_local_file
\* the outcomes of open/json.dump that lines 106-111 distinguish
OpenResults == {"ok", "IOError"}

\* the path of lines 103-104: docs/<city>_<timestamp>.json
file_path(city, now) == [dir |-> "docs", name |-> city, ts |-> PyTime("compact", now)]

\* logs the IOError and re-raises it, as upload_to_s3 does
save_reraise(data, now, result) ==
    LET cv == PyGet(data, "city", PyStr(unknown)) IN
    IF cv.t # "str"
    THEN [raised |-> TRUE, exc |-> "AttributeError", out |-> <<>>, calls |-> <<>>,
          data |-> data]
    ELSE LET city == replace(cv.s)
             call == [Path |-> file_path(city, now), Text |-> data, ok |-> result = "ok"]
         IN IF result = "ok"
            THEN [raised |-> FALSE, exc |-> "", calls |-> <<call>>, data |-> data,
                  out |-> <<[lvl |-> "INFO", tag |-> "saved", who |-> PyStr(city)]>>]
            ELSE [raised |-> TRUE, exc |-> result, calls |-> <<call>>, data |-> data,
                  out |-> <<[lvl |-> "ERROR", tag |-> "save", who |-> PyStr(city)]>>]

\* line 101 is outside the try; the IOError of lines 107-108 is logged and
\* the function returns normally
save_to_local_file(data, now, result) ==
    LET cv == PyGet(data, "city", PyStr(unknown)) IN
    IF cv.t # "str"
    THEN [raised |-> TRUE, exc |-> "AttributeError", out |-> <<>>, calls |-> <<>>,
          data |-> data]
    ELSE LET city == replace(cv.s)
             call == [Path |-> file_path(city, now), Text |-> data, ok |-> result = "ok"]
         IN IF result = "ok"
            THEN [raised |-> FALSE, exc |-> "", calls |-> <<call>>, data |-> data,
                  out |-> <<[lvl |-> "INFO", tag |-> "saved", who |-> PyStr(city)]>>]
            ELSE [raised |-> FALSE, exc |-> "", calls |-> <<call>>, data |-> data,
                  out |-> <<[lvl |-> "ERROR", tag |-> "save", who |-> PyStr(city)]>>]

\* ---------------------------------------------------------------- inputs
EnvChars == {"a", " ", ","}

RECURSIVE StrsUpTo(_)
StrsUpTo(n) ==
    IF n = 0 THEN {<<>>}
    ELSE LET shorter == StrsUpTo(n - 1)
         IN shorter \cup {Append(s, c) : s \in shorter, c \in EnvChars}

\* os.getenv gives None when the variable is unset, else its (possibly empty) value
ApiKeys == {PyNone, PyStr(<<>>), PyStr(<<"k">>)}
BucketNames == {PyNone, PyStr(<<>>), PyStr(<<"b">>)}

\* a JSON object with the given members; Absent leaves the member out
Absent == [t |-> "absent"]
MkRaw(n, m, w) ==
    LET Opt(k) == CASE k = "name" -> n [] k = "main" -> m [] OTHER -> w
        keys == {k \in {"name", "main", "weather"} : Opt(k) # Absent}
    IN PyDict([k \in keys |-> Opt(k)])

Measurements == PyDict([temp |-> PyNum(72), humidity |-> PyNum(40)])
Conditions == PyList(<<PyDict([description |-> PyStr(<<"x">>)])>>)

NameOpts == {Absent, PyNone, PyStr(<<"a">>), PyStr(<<"a", " ", "b">>)}
MainOpts == {Absent, PyNone, EmptyDict, PyDict([temp |-> PyNum(72)]), Measurements,
             PyList(<<>>)}
WeatherOpts == {Absent, PyNone, PyList(<<>>), PyList(<<EmptyDict>>), Conditions,
                PyList(<<PyNone>>), PyStr(<<"x">>), EmptyDict}

\* the JSON objects extract_relevant_data is applied to on its own
AllRaws == {MkRaw(n, m, w) : n \in NameOpts, m \in MainOpts, w \in WeatherOpts}

\* the bodies the weather API answers with in a run of main
RawsMain == {MkRaw(PyStr(<<"a", " ", "b">>), Measurements, Conditions),
             MkRaw(PyStr(<<"a">>), Measurements, Absent),
             MkRaw(Absent, Measurements, Conditions),
             MkRaw(PyNone, Measurements, Conditions),
             MkRaw(PyStr(<<"a">>), Measurements, PyList(<<>>))}

Responses == {OkResponse(r) : r \in RawsMain}
             \cup {ErrResponse("HTTPError"), ErrResponse("RequestException")}

\* datetime.now(timezone.utc): the clock does not go back
Nows == {n \in {clock, clock + 1} : n <= MaxClock}

\* ---------------------------------------------------------------- main
\* the lines printed in iteration i
Stamp(out, i) == [k \in 1..Len(out) |-> [lvl |-> out[k].lvl, tag |-> out[k].tag,
                                         who |-> out[k].who, i |-> i]]

Fatal(what) == <<[lvl |-> "FATAL", tag |-> what, who |-> PyNone, i |-> 0]>>

\* line 146
SkipWarning(city) == <<[lvl |-> "WARN", tag |-> "skip", who |-> PyStr(city)]>>

\* the except clause ends the run instead of the iteration
after_except_abort(i) == Len(cities) + 1

\* after the except clause of lines 144-146 the for loop takes the next city
after_except(i) == i + 1

\* the sinks are called in the other order
NextStmtSaveFirst(p) ==
    CASE p = "fetch" -> "extract"
      [] p = "extract" -> "save"
      [] p = "save" -> "upload"
      [] p = "upload" -> "fetch"

\* the statement after p in the try body of lines 134-143; after the last
\* one the loop is back at its head
NextStmt(p) ==
    CASE p = "fetch" -> "extract"
      [] p = "extract" -> "upload"
      [] p = "upload" -> "save"
      [] p = "save" -> "fetch"

Advance(p) ==
    /\ pc' = NextStmt(p)
    /\ idx' = IF NextStmt(p) = "fetch" THEN idx + 1 ELSE idx

Skip ==
    /\ pc' = "fetch"
    /\ idx' = after_except(idx)

Init ==
    /\ OPENWEATHER_API_KEY \in ApiKeys
    /\ S3_BUCKET_NAME \in BucketNames
    /\ CITIES_ENV \in StrsUpTo(MaxEnvLen)
    /\ pc = "main"
    /\ cities = <<>>
    /\ idx = 0
    /\ s3_client = "unset"
    /\ raw_data = PyNone
    /\ cleaned = PyNone
    /\ clock = 0
    /\ bucket = {}
    /\ docs = {}
    /\ log = <<>>
    /\ ops = <<>>

\* lines 116-129
CheckConfig ==
    /\ pc = "main"
    /\ IF Falsy(OPENWEATHER_API_KEY)
       THEN /\ log' = log \o Fatal("OPENWEATHER_API_KEY")
            /\ pc' = "done"
            /\ UNCHANGED <<cities, idx, s3_client>>
       ELSE IF Falsy(S3_BUCKET_NAME)
       THEN /\ log' = log \o Fatal("S3_BUCKET_NAME")
            /\ pc' = "done"
            /\ UNCHANGED <<cities, idx, s3_client>>
       ELSE /\ cities' = get_cities_from_env(CITIES_ENV)
            /\ IF cities' = <<>>
               THEN /\ log' = log \o Fatal("CITIES")
                    /\ pc' = "done"
                    /\ UNCHANGED <<idx, s3_client>>
               ELSE /\ s3_client' = "s3"
                    /\ pc' = "fetch"
                    /\ idx' = 1
                    /\ UNCHANGED log
    /\ UNCHANGED <<OPENWEATHER_API_KEY, S3_BUCKET_NAME, CITIES_ENV, raw_data, cleaned,
                   clock, bucket, docs, ops>>

\* lines 131-134, and 144-146 when the fetch raises
Fetch ==
    /\ pc = "fetch"
    /\ idx <= Len(cities)
    /\ \E resp \in Responses :
         LET city == cities[idx]
             r == fetch_weather_for_city(city, resp)
             fetching == <<[lvl |-> "INFO", tag |-> "fetching", who |-> PyStr(city)]>>
         IN /\ ops' = Append(ops, [op |-> "fetch", i |-> idx, env |-> resp.kind,
                                   ok |-> ~r.raised, arg |-> PyStr(city),
                                   ret |-> r.value])
            /\ IF r.raised
               THEN /\ log' = log \o Stamp(fetching \o r.out \o SkipWarning(city), idx)
                    /\ Skip
                    /\ UNCHANGED raw_data
               ELSE /\ log' = log \o Stamp(fetching \o r.out, idx)
                    /\ raw_data' = r.value
                    /\ Advance("fetch")
    /\ UNCHANGED <<OPENWEATHER_API_KEY, S3_BUCKET_NAME, CITIES_ENV, cities, s3_client,
                   cleaned, clock, bucket, docs>>

\* lines 135-141, and 144-146 when the extraction raises
Extract ==
    /\ pc = "extract"
    /\ \E now \in Nows :
         LET city == cities[idx]
             r == extract_relevant_data(raw_data, now)
         IN /\ clock' = now
            /\ ops' = Append(ops, [op |-> "extract", i |-> idx, env |-> "",
                                   ok |-> r.t # "raise", arg |-> raw_data, ret |-> r])
            /\ IF r.t = "raise"
               THEN /\ log' = log \o Stamp(SkipWarning(city), idx)
                    /\ Skip
                    /\ UNCHANGED cleaned
               ELSE /\ log' = log \o Stamp(<<[lvl |-> "INFO", tag |-> "summary",
                                              who |-> r.d["city"]]>>, idx)
                    /\ cleaned' = r
                    /\ Advance("extract")
    /\ UNCHANGED <<OPENWEATHER_API_KEY, S3_BUCKET_NAME, CITIES_ENV, cities, s3_client,
                   raw_data, bucket, docs>>

\* put_object replaces the object of the same key
Put(objects, call) == {o \in objects : o.Key # call.Key}
                      \cup {[Key |-> call.Key, Body |-> call.Body]}

\* open(path, "w") replaces the file of the same path
WriteFile(files, call) == {f \in files : f.Path # call.Path}
                          \cup {[Path |-> call.Path, Text |-> call.Text]}

\* line 142 with lines 76-94, and 144-146 when the upload raises
Upload ==
    /\ pc = "upload"
    /\ \E now \in Nows, result \in PutResults :
         LET city == cities[idx]
             r == upload_to_s3(cleaned, now, result)
         IN /\ clock' = now
            /\ cleaned' = r.data
            /\ ops' = ops \o [k \in 1..Len(r.calls) |->
                                [op |-> "put_object", i |-> idx, env |-> result,
                                 ok |-> r.calls[k].ok, arg |-> r.calls[k].Body,
                                 ret |-> PyNone]]
            /\ bucket' = IF r.calls # <<>> /\ r.calls[1].ok
                         THEN Put(bucket, r.calls[1]) ELSE bucket
            /\ IF r.raised
               THEN /\ log' = log \o Stamp(r.out \o SkipWarning(city), idx)
                    /\ Skip
               ELSE /\ log' = log \o Stamp(r.out, idx)
                    /\ Advance("upload")
    /\ UNCHANGED <<OPENWEATHER_API_KEY, S3_BUCKET_NAME, CITIES_ENV, cities, s3_client,
                   raw_data, docs>>

\* line 143 with lines 97-111, and 144-146 when the save raises
Save ==
    /\ pc = "save"
    /\ \E now \in Nows, result \in OpenResults :
         LET city == cities[idx]
             r == save_to_local_file(cleaned, now, result)
         IN /\ clock' = now
            /\ cleaned' = r.data
            /\ ops' = ops \o [k \in 1..Len(r.calls) |->
                                [op |-> "open", i |-> idx, env |-> result,
                                 ok |-> r.calls[k].ok, arg |-> r.calls[k].Text,
                                 ret |-> PyNone]]
            /\ docs' = IF r.calls # <<>> /\ r.calls[1].ok
                       THEN WriteFile(docs, r.calls[1]) ELSE docs
            /\ IF r.raised
               THEN /\ log' = log \o Stamp(r.out \o SkipWarning(city), idx)
                    /\ Skip
               ELSE /\ log' = log \o Stamp(r.out, idx)
                    /\ Advance("save")
    /\ UNCHANGED <<OPENWEATHER_API_KEY, S3_BUCKET_NAME, CITIES_ENV, cities, s3_client,
                   raw_data, bucket>>

\* the for loop of line 131 is exhausted and main returns
LoopExit ==
    /\ pc = "fetch"
    /\ idx > Len(cities)
    /\ pc' = "done"
    /\ UNCHANGED <<OPENWEATHER_API_KEY, S3_BUCKET_NAME, CITIES_ENV, cities, idx,
                   s3_client, raw_data, cleaned, clock, bucket, docs, log, ops>>

Next == CheckConfig \/ Fetch \/ Extract \/ Upload \/ Save \/ LoopExit

Spec == Init /\ [][Next]_vars

\* main is the only thread: a statement that can run does run
FairSpec == Spec /\ WF_vars(Next)

\* ---------------------------------------------------------------- extract_relevant_data alone
InitExtract ==
    /\ OPENWEATHER_API_KEY = PyStr(<<"k">>)
    /\ S3_BUCKET_NAME = PyStr(<<"b">>)
    /\ CITIES_ENV = <<"a">>
    /\ pc = "call"
    /\ cities = <<>>
    /\ idx = 0
    /\ s3_client = "unset"
    /\ raw_data \in AllRaws
    /\ cleaned = PyNone
    /\ clock \in 0..MaxClock
    /\ bucket = {}
    /\ docs = {}
    /\ log = <<>>
    /\ ops = <<>>

\* one call of extract_relevant_data(raw_data); cleaned holds what it returns or raises
ExtractCall ==
    /\ pc = "call"
    /\ cleaned' = extract_relevant_data(raw_data, clock)
    /\ pc' = "ret"
    /\ UNCHANGED <<OPENWEATHER_API_KEY, S3_BUCKET_NAME, CITIES_ENV, cities, idx,
                   s3_client, raw_data, clock, bucket, docs, log, ops>>

NextExtract == ExtractCall

SpecExtract == InitExtract /\ [][NextExtract]_vars

\* ---------------------------------------------------------------- properties
\* ops[k] and log[k] carry the iteration i they belong to
Has(op, i) == \E k \in 1..Len(ops) : ops[k].op = op /\ ops[k].i = i

Skipped(i) == \E k \in 1..Len(log) :
                 /\ log[k].lvl = "WARN" /\ log[k].tag = "skip" /\ log[k].i = i
                 /\ log[k].who = PyStr(cities[i])

Logged(lvl, tag, i) == \E k \in 1..Len(log) :
                          log[k].lvl = lvl /\ log[k].tag = tag /\ log[k].i = i

\* the loop has left iteration i, and a finished run has fetched every later city
Continues(i) == /\ idx > i
                /\ pc = "done" => \A j \in (i + 1)..Len(cities) : Has("fetch", j)

\* CITIES holds no city: nothing but commas and whitespace
NoCityIn(env) == \A k \in 1..Len(env) : env[k] \in {","} \cup Whitespace

PrecondsPass == /\ ~Falsy(OPENWEATHER_API_KEY)
                /\ ~Falsy(S3_BUCKET_NAME)
                /\ ~NoCityIn(CITIES_ENV)

\* C1: when the three preconditions pass, main terminates, and when it has
\* terminated every configured city has had a fetch attempted, whatever
\* failed for the cities before it.
C1_EveryCityAttempted ==
    /\ PrecondsPass => <>(pc = "done")
    /\ [](pc = "done" /\ PrecondsPass =>
            LET configured == get_cities_from_env(CITIES_ENV)
            IN \A i \in 1..Len(configured) :
                  \E k \in 1..Len(ops) : /\ ops[k].op = "fetch"
                                         /\ ops[k].i = i
                                         /\ ops[k].arg = PyStr(configured[i]))

\* a finished run in which a city failed and a later city was fetched
C1_Witness ==
    /\ pc = "done"
    /\ \E k \in 1..Len(ops) : /\ ~ops[k].ok
                              /\ Has("fetch", ops[k].i + 1)

\* C2: with the API key unset or empty, or the bucket name unset or empty,
\* or no city in CITIES, main returns after one fatal line and has made no
\* fetch, no S3 client, no object-store write and no local file write.
C2_FatalPrecondition ==
    ~PrecondsPass =>
        /\ pc \in {"main", "done"}
        /\ ops = <<>>
        /\ s3_client = "unset"
        /\ bucket = {}
        /\ docs = {}
        /\ pc = "done" => Len(log) = 1 /\ log[1].lvl = "FATAL"

\* key and bucket are set, CITIES is not empty but names no city, main returned
C2_Witness ==
    /\ pc = "done"
    /\ ~Falsy(OPENWEATHER_API_KEY)
    /\ ~Falsy(S3_BUCKET_NAME)
    /\ CITIES_ENV = <<" ", ",", " ">>
    /\ Len(log) = 1 /\ log[1].tag = "CITIES"

\* C3: extract_relevant_data never raises on a JSON object: it returns a
\* record with None for each absent field.
C3_ExtractTotal ==
    pc = "ret" =>
        /\ cleaned.t = "dict"
        /\ "name" \notin DOMAIN raw_data.d => cleaned.d["city"] = PyNone
        /\ "main" \notin DOMAIN raw_data.d => /\ cleaned.d["temperature_f"] = PyNone
                                              /\ cleaned.d["humidity"] = PyNone
        /\ "weather" \notin DOMAIN raw_data.d => cleaned.d["condition"] = PyNone

Rank(op) == CASE op = "fetch" -> 1 [] op = "extract" -> 2
              [] op = "put_object" -> 3 [] op = "open" -> 4

\* C4: the calls of a run are one block per entry of the city list, in the
\* configured order; a block is a prefix of fetch, extract, object-store
\* write, local-file write that starts with one fetch; a failed call ends
\* its block (no retry) and nothing is called for a city once a later city
\* has been fetched.
C4_BlocksInOrder ==
    /\ \A k \in 1..Len(ops) :
          /\ ops[k].i \in 1..Len(cities)
          /\ ops[k].op = "fetch" => ops[k].arg = PyStr(cities[ops[k].i])
          /\ IF k = 1
             THEN ops[k].op = "fetch" /\ ops[k].i = 1
             ELSE \/ ops[k].op = "fetch" /\ ops[k].i = ops[k - 1].i + 1
                  \/ /\ ops[k].i = ops[k - 1].i
                     /\ Rank(ops[k].op) = Rank(ops[k - 1].op) + 1
                     /\ ops[k - 1].ok
    /\ pc = "done" /\ cities # <<>> => ops # <<>> /\ ops[Len(ops)].i = Len(cities)

\* two cities: the first gets all four calls, the second stops at a failed
\* object-store write
C4_Witness ==
    /\ pc = "done"
    /\ Len(cities) = 2
    /\ Has("open", 1)
    /\ Has("put_object", 2)
    /\ ~Has("open", 2)

\* C5: a local file is opened for a city only after the object-store write
\* of the same iteration succeeded; when that write fails, the local-file
\* sink is not called for the city, the skip warning names the city and the
\* loop goes on with the next city.
C5_NoLocalAfterFailedUpload ==
    /\ \A k \in 1..Len(ops) :
          ops[k].op = "open" =>
             \E j \in 1..(k - 1) : /\ ops[j].op = "put_object"
                                   /\ ops[j].i = ops[k].i
                                   /\ ops[j].env = "ok"
    /\ \A k \in 1..Len(ops) :
          ops[k].op = "put_object" /\ ops[k].env # "ok" =>
             /\ ~Has("open", ops[k].i)
             /\ Skipped(ops[k].i)
             /\ Continues(ops[k].i)

\* the object-store write of the first city failed and the second city was fetched
C5_Witness ==
    /\ pc = "done"
    /\ \E k \in 1..Len(ops) : /\ ops[k].op = "put_object" /\ ops[k].env = "ClientError"
                              /\ ops[k].i = 1
    /\ Has("fetch", 2)

\* C6: when the local-file write fails with an IOError, save_to_local_file
\* logs it and returns: no skip warning is printed for the city, the object
\* just written for the city is still in the bucket, and the loop goes on
\* with the next city.
C6_LocalFailureAbsorbed ==
    /\ \A k \in 1..Len(ops) :
          ops[k].op = "open" /\ ops[k].env # "ok" =>
             /\ Logged("ERROR", "save", ops[k].i)
             /\ ~Logged("WARN", "skip", ops[k].i)
             /\ \E j \in 1..(k - 1) : /\ ops[j].op = "put_object" /\ ops[j].ok
                                      /\ ops[j].i = ops[k].i
             /\ Continues(ops[k].i)
    /\ ops # <<>> /\ ops[Len(ops)].op = "open" /\ ops[Len(ops)].env # "ok" =>
          \E o \in bucket : o.Body = ops[Len(ops) - 1].arg

\* the local write of the first city failed and the second city was fetched
C6_Witness ==
    /\ pc = "done"
    /\ \E k \in 1..Len(ops) : /\ ops[k].op = "open" /\ ops[k].env = "IOError"
                              /\ ops[k].i = 1
    /\ Has("fetch", 2)
    /\ bucket # {}

\* C7: for a city whose fetch fails (HTTP error status or transport error)
\* nothing is extracted or written to either sink, the skip warning names
\* the city and the loop goes on with the next city.
C7_FailedFetchWritesNothing ==
    \A k \in 1..Len(ops) :
       ops[k].op = "fetch" /\ ops[k].env # "ok" =>
          /\ ~Has("extract", ops[k].i)
          /\ ~Has("put_object", ops[k].i)
          /\ ~Has("open", ops[k].i)
          /\ Skipped(ops[k].i)
          /\ Logged("ERROR", ops[k].env, ops[k].i)
          /\ Continues(ops[k].i)

\* the first city got an HTTP error and the second city was written to both sinks
C7_Witness ==
    /\ pc = "done"
    /\ \E k \in 1..Len(ops) : /\ ops[k].op = "fetch" /\ ops[k].env = "HTTPError"
                              /\ ops[k].i = 1
    /\ Has("open", 2)
    /\ docs # {}

\* raw has a location name and measurements with temperature and humidity
\* but no conditions list
NoConditionsOnly(raw) ==
    /\ "weather" \notin DOMAIN raw.d
    /\ "name" \in DOMAIN raw.d /\ raw.d["name"].t = "str"
    /\ "main" \in DOMAIN raw.d /\ raw.d["main"].t = "dict"
    /\ {"temp", "humidity"} \subseteq DOMAIN raw.d["main"].d

\* C8: for a response with a location name, temperature and humidity but no
\* conditions list, extract_relevant_data returns a record whose condition
\* is None and whose city, temperature, humidity and raw payload are those
\* of the response, with the timestamp set.
C8_MissingConditions ==
    pc = "ret" /\ NoConditionsOnly(raw_data) =>
        /\ cleaned.t = "dict"
        /\ cleaned.d["condition"] = PyNone
        /\ cleaned.d["city"] = raw_data.d["name"]
        /\ cleaned.d["temperature_f"] = raw_data.d["main"].d["temp"]
        /\ cleaned.d["humidity"] = raw_data.d["main"].d["humidity"]
        /\ cleaned.d["timestamp"] = PyTime("iso", clock)
        /\ cleaned.d["raw"] = raw_data

C8_Witness ==
    /\ pc = "ret"
    /\ raw_data = MkRaw(PyStr(<<"a", " ", "b">>), Measurements, Absent)
    /\ cleaned.t = "dict"

\* C9: the record the extractor returned is the record the object-store
\* sink and the local-file sink are given and the record main still holds
\* afterwards, and its raw payload is the response the fetch returned.
C9_RecordUnchanged ==
    /\ \A k \in 1..Len(ops) : \A j \in 1..(k - 1) :
          ops[j].i = ops[k].i =>
             /\ ops[j].op = "fetch" /\ ops[k].op = "extract" => ops[k].arg = ops[j].ret
             /\ ops[j].op = "fetch" /\ ops[k].op = "extract" /\ ops[k].ok =>
                   ops[k].ret.d["raw"] = ops[j].ret
             /\ ops[j].op = "extract" /\ ops[k].op \in {"put_object", "open"} =>
                   ops[k].arg = ops[j].ret
    /\ \A k \in 1..Len(ops) :
          /\ ops[k].op = "extract" /\ ops[k].ok
          /\ \A j \in (k + 1)..Len(ops) : ~(ops[j].op = "extract" /\ ops[j].ok)
          => cleaned = ops[k].ret
    /\ \A o \in bucket : \E k \in 1..Len(ops) : ops[k].op = "extract" /\ ops[k].ret = o.Body
    /\ \A f \in docs : \E k \in 1..Len(ops) : ops[k].op = "extract" /\ ops[k].ret = f.Text

\* a record whose city has a space went through both sinks
C9_Witness ==
    /\ pc = "done"
    /\ \E k \in 1..Len(ops) : /\ ops[k].op = "open" /\ ops[k].ok
                              /\ ops[k].arg.d["city"] = PyStr(<<"a", " ", "b">>)
    /\ bucket # {} /\ docs # {}

\* C10: when the response has no location name the record's city is None,
\* upload_to_s3 raises before it calls put_object, the per-city except
\* clause prints the skip warning, neither sink writes anything for the city
\* and the loop goes on with the next city.
C10_NullCitySkipped ==
    \A k \in 1..Len(ops) :
       /\ ops[k].op = "extract" /\ ops[k].ok
       /\ PyGet(ops[k].arg, "name", PyNone) = PyNone
       => /\ ops[k].ret.d["city"] = PyNone
          /\ ~Has("put_object", ops[k].i)
          /\ ~Has("open", ops[k].i)
          /\ ~Logged("ERROR", "upload", ops[k].i)
          /\ \/ idx = ops[k].i /\ pc = "upload"
             \/ Skipped(ops[k].i) /\ Continues(ops[k].i)

\* the first response had no name and the second city was fetched
C10_Witness ==
    /\ pc = "done"
    /\ \E k \in 1..Len(ops) : /\ ops[k].op = "extract" /\ ops[k].ok /\ ops[k].i = 1
                              /\ "name" \notin DOMAIN ops[k].arg.d
    /\ Has("fetch", 2)
    /\ Skipped(1)

====
